---- MODULE Spec2Model ----
(***************************************************************************)
(* Model of examples/filters/langfuse_v3_filter_pipeline.py: the Pipeline  *)
(* object (langfuse client, chat_traces, pending_chats, model_names,       *)
(* _input_logged), its lifecycle hooks and the inlet / outlet filters,     *)
(* together with the records the tracing backend receives from them.       *)
(***************************************************************************)
EXTENDS Integers, Sequences, FiniteSets, TLC

VARIABLES
    phase,          \* "new" | "running" | "stopped": where the host is
    langfuse,       \* TRUE: self.langfuse is a client, FALSE: it is None
    auth,           \* outcome of the latest set_langfuse: "none" | "ok" | "failed"
    valves,         \* [insert_tags, use_model_name]
    chat_traces,    \* chat_id -> index into traces (the handle)
    pending_chats,  \* chat_id -> [input, metadata, user, model_id]
    model_names,    \* chat_id -> [id, name]
    input_logged,   \* self._input_logged (the empty set while it does not exist)
    traces,         \* backend: the root spans opened, in order
    spans,          \* backend: chat_id -> [started, ended] user_input spans
    uuids,          \* number of uuid4() values handed out as chat ids
    last            \* the latest hook call and what it did

vars == <<phase, langfuse, auth, valves, chat_traces, pending_chats,
          model_names, input_logged, traces, spans, uuids, last>>

-----------------------------------------------------------------------------
(* Bounds *)

\* most root spans the backend is asked to open
MaxTraces == 2
\* most user_input spans started for one chat id
MaxSpans == 2
\* most chat ids synthesized by uuid4()
MaxUuid == 2

-----------------------------------------------------------------------------
(* Python values *)

\* None, for the string-valued fields
None == "<None>"

\* None / a value, for the integer-valued fields
NoneV == {}
Some(v) == {v}

\* truth value of a string-or-None
Truthy(x) == x # None /\ x # ""

\* truth value of an int-or-None
TruthyV(x) == x # NoneV /\ x # Some(0)

\* a or b
PyOr(a, b) == IF Truthy(a) THEN a ELSE b

\* a or b, on int-or-None
PyOrV(a, b) == IF TruthyV(a) THEN a ELSE b

\* d.get(k, default)
Get(d, k, default) == IF k \in DOMAIN d THEN d[k] ELSE default

\* the int-or-None d.get(k)
GetV(d, k) == IF k \in DOMAIN d THEN Some(d[k]) ELSE NoneV

\* d[k] = v
Put(d, k, v) == [x \in DOMAIN d \cup {k} |-> IF x = k THEN v ELSE d[x]]

\* d.pop(k, None) / del d[k]
Del(d, k) == [x \in DOMAIN d \ {k} |-> d[x]]

\* {}
EmptyDict == [x \in {} |-> None]

\* user.get("email") if user else None ; a user is [isNone, email]
NoUser == [isNone |-> TRUE, email |-> None]
User(e) == [isNone |-> FALSE, email |-> e]
EmailOf(user) == IF user.isNone THEN None ELSE user.email

-----------------------------------------------------------------------------
(* Pure functions of the module *)

RECURSIVE get_last_assistant_message_obj(_)
get_last_assistant_message_obj(messages) ==
    IF messages = <<>> THEN EmptyDict
    ELSE IF messages[Len(messages)]["role"] = "assistant"
         THEN messages[Len(messages)]
         ELSE get_last_assistant_message_obj(SubSeq(messages, 1, Len(messages) - 1))

\* utils.pipelines.main.get_last_assistant_message: the content of that message
get_last_assistant_message(messages) ==
    LET m == get_last_assistant_message_obj(messages)
    IN  IF m = EmptyDict THEN None ELSE Get(m, "content", None)

\* the tag list built without looking at valves.insert_tags
build_tags_whatever_valve(task_name) ==
    IF task_name \notin {"user_response", "llm_response"}
    THEN <<"open-webui", task_name>>
    ELSE <<"open-webui">>

\* the tag list, as a sequence
build_tags(task_name) ==
    IF valves.insert_tags /\ task_name \notin {"user_response", "llm_response"}
    THEN <<"open-webui", task_name>>
    ELSE <<"open-webui">>

\* lines 122-123 / 161-162: the temporary-session substitution
NormalizeChatId(chat_id, session_id) ==
    IF chat_id = "local" /\ Truthy(session_id)
    THEN "temporary-session-" \o session_id
    ELSE chat_id

\* str(uuid.uuid4()): the n-th fresh identifier
Uuid(n) == "uuid-" \o ToString(n)

\* lines 243-249: the usage record, or NoUsage
NoUsage == [present |-> FALSE, input |-> NoneV, output |-> NoneV]
InputTokens(info) == PyOrV(GetV(info, "prompt_eval_count"), GetV(info, "prompt_tokens"))
OutputTokens(info) == PyOrV(GetV(info, "eval_count"), GetV(info, "completion_tokens"))
ExtractUsage(msg) ==
    IF msg = EmptyDict THEN NoUsage
    ELSE LET info == Get(msg, "usage", EmptyDict)
         IN  IF ~Get(msg, "usage_is_dict", TRUE) THEN NoUsage
             ELSE IF InputTokens(info) # NoneV /\ OutputTokens(info) # NoneV
                  THEN [present |-> TRUE, input |-> InputTokens(info),
                        output |-> OutputTokens(info)]
                  ELSE NoUsage

-----------------------------------------------------------------------------
(* Requests *)

\* metadata.model, a dict that may hold the display name
ModelInfo(name) == IF name = None THEN EmptyDict ELSE [name |-> name]

\* the metadata dict of a request; a key whose argument is None is left out
MkMetadata(chat_id, session_id, task, mname) ==
    LET keys == (IF chat_id = None THEN {} ELSE {"chat_id"})
                \cup (IF session_id = None THEN {} ELSE {"session_id"})
                \cup (IF task = None THEN {} ELSE {"task"})
                \cup (IF mname = None THEN {} ELSE {"model"})
    IN  [k \in keys |-> CASE k = "chat_id" -> chat_id
                          [] k = "session_id" -> session_id
                          [] k = "task" -> task
                          [] k = "model" -> ModelInfo(mname)]

\* a request body; hasModel / hasMessages say whether the key is there
MkBody(metadata, hasModel, model, hasMessages, messages) ==
    LET keys == {"metadata"} \cup (IF hasModel THEN {"model"} ELSE {})
                \cup (IF hasMessages THEN {"messages"} ELSE {})
    IN  [k \in keys |-> CASE k = "metadata" -> metadata
                          [] k = "model" -> model
                          [] k = "messages" -> messages]

\* a chat message; usage is a dict of token counts
Msg(role, content, usage) == [role |-> role, content |-> content, usage |-> usage]

\* one turn: the user's question and the assistant's reply
Turn(q, a, usage) == <<Msg("user", q, EmptyDict), Msg("assistant", a, usage)>>

-----------------------------------------------------------------------------
(* What a hook call did *)

NoGen == [made |-> FALSE, model |-> None, usage |-> NoUsage, ended |-> FALSE,
          user_id |-> None]

NoLast ==
    [op |-> "none", chat |-> None, email |-> None,
     body |-> EmptyDict, ret |-> EmptyDict, raised |-> FALSE,
     traced |-> FALSE,       \* the call went past its guards
     had |-> 0,              \* the handle chat_traces held on entry
     ended_old |-> 0,        \* the handle the re-authentication step discarded
     end_failed |-> FALSE,   \* trace.end() of that step raised
     buffered |-> FALSE,     \* inlet stored a PendingTurn
     opened |-> 0,           \* the root span start_span opened
     created |-> 0,          \* the handle stored into chat_traces
     create_failed |-> FALSE,\* start_span or update_trace raised
     was_logged |-> FALSE,   \* the chat id was in _input_logged on entry
     used |-> 0,             \* the handle the rest of the call wrote to
     touched |-> {},         \* handles that got an update, a span or a generation
     trace_input |-> <<>>,   \* input of the root span opened
     trace_user |-> None,    \* user_id the root span was attributed to
     tags |-> <<>>,          \* the tag list built for the call
     reached_log |-> FALSE,  \* the call got to the user-input step
     span_started |-> FALSE, \* a user_input span was started
     span_ended |-> FALSE,   \* and ended
     out_user |-> None,      \* user_id of the output update's metadata
     gen |-> NoGen]          \* the generation record

-----------------------------------------------------------------------------
(* Initial state: Pipeline.__init__ *)

\* line 35 and line 48 with USE_MODEL_NAME unset
DefaultValves == [insert_tags |-> TRUE, use_model_name |-> FALSE]

InitWith(valveChoices) ==
    /\ phase = "new"
    /\ langfuse = FALSE
    /\ auth = "none"
    /\ valves \in valveChoices
    /\ chat_traces = EmptyDict
    /\ pending_chats = EmptyDict
    /\ model_names = EmptyDict
    /\ input_logged = {}
    /\ traces = <<>>
    /\ spans = EmptyDict
    /\ uuids = 0
    /\ last = NoLast

Init == InitWith({DefaultValves})

-----------------------------------------------------------------------------
(* Lifecycle hooks *)

\* set_langfuse without line 102: the client of line 92 stays
ClientKept(ok) == TRUE

\* the value self.langfuse holds after set_langfuse; ok: auth_check passed
ClientAfterInit(ok) == ok

\* set_langfuse
set_langfuse(ok) ==
    /\ langfuse' = ClientAfterInit(ok)
    /\ auth' = IF ok THEN "ok" ELSE "failed"

on_startup(ok) ==
    /\ phase = "new"
    /\ phase' = "running"
    /\ set_langfuse(ok)
    /\ last' = [NoLast EXCEPT !.op = "on_startup"]
    /\ UNCHANGED <<valves, chat_traces, pending_chats, model_names,
                   input_logged, traces, spans, uuids>>

\* the host stores the new valves, then calls on_valves_updated
on_valves_updated(v, ok) ==
    /\ phase = "running"
    /\ valves' = v
    /\ set_langfuse(ok)
    /\ last' = [NoLast EXCEPT !.op = "on_valves_updated"]
    /\ UNCHANGED <<phase, chat_traces, pending_chats, model_names,
                   input_logged, traces, spans, uuids>>

\* trace.end() on every handle of chat_traces; failing: the chats whose end() raises
EndAll(failing) ==
    [i \in DOMAIN traces |->
        IF \E c \in DOMAIN chat_traces \ failing : chat_traces[c] = i
        THEN [traces[i] EXCEPT !.ended = TRUE]
        ELSE traces[i]]

on_shutdown(failing) ==
    /\ phase = "running"
    /\ phase' = "stopped"
    /\ IF langfuse
       THEN /\ traces' = EndAll(failing)
            /\ chat_traces' = EmptyDict
       ELSE UNCHANGED <<traces, chat_traces>>
    /\ last' = [NoLast EXCEPT !.op = "on_shutdown",
                              !.end_failed = langfuse /\ failing # {}]
    /\ UNCHANGED <<langfuse, auth, valves, pending_chats, model_names,
                   input_logged, spans, uuids>>

-----------------------------------------------------------------------------
(* inlet *)

\* lines 131-136: the ModelIdentity entry after an inlet
ModelNamesAfter(chat_id, model_id, model_info) ==
    LET old == Get(model_names, chat_id, EmptyDict)
        withId == Put(old, "id", model_id)
        entry == IF "name" \in DOMAIN model_info
                 THEN Put(withId, "name", model_info["name"])
                 ELSE withId
    IN  Put(model_names, chat_id, entry)

\* the body with the model identity written into its metadata, as outlet
\* does at lines 274-275
ReturnedBodyWithModel(body, metadata1) ==
    Put(body, "metadata", Put(metadata1, "model_id", Get(body, "model", None)))

\* the body handed back as it came
ReturnedBodyUntouched(body, metadata1) == body

\* lines 125-126, 149: the body inlet returns, its metadata holding the chat id
ReturnedBody(body, metadata1) == Put(body, "metadata", metadata1)

\* line 140: whether inlet buffers the turn
ShouldBuffer(chat_id) == chat_id \notin DOMAIN pending_chats

inlet(body, user) ==
    /\ phase = "running"
    /\ IF ~langfuse
       THEN /\ last' = [NoLast EXCEPT !.op = "inlet", !.body = body, !.ret = body,
                                      !.email = EmailOf(user)]
            /\ UNCHANGED <<pending_chats, model_names, uuids>>
       ELSE LET metadata == Get(body, "metadata", EmptyDict)
                fresh == "chat_id" \notin DOMAIN metadata
                raw_id == IF fresh THEN Uuid(uuids + 1) ELSE metadata["chat_id"]
                session_id == Get(metadata, "session_id", None)
                chat_id == NormalizeChatId(raw_id, session_id)
                metadata1 == Put(metadata, "chat_id", chat_id)
                body1 == ReturnedBody(body, metadata1)
                model_id == Get(body, "model", None)
                model_info == Get(metadata, "model", EmptyDict)
                buffer == ShouldBuffer(chat_id)
                raises == buffer /\ "messages" \notin DOMAIN body
            IN  /\ fresh => uuids < MaxUuid
                /\ uuids' = IF fresh THEN uuids + 1 ELSE uuids
                /\ model_names' = ModelNamesAfter(chat_id, model_id, model_info)
                /\ pending_chats' =
                      IF buffer /\ ~raises
                      THEN Put(pending_chats, chat_id,
                               [input |-> body["messages"], metadata |-> metadata1,
                                user |-> user, model_id |-> model_id])
                      ELSE pending_chats
                /\ last' = [NoLast EXCEPT !.op = "inlet", !.body = body,
                                          !.ret = body1, !.raised = raises,
                                          !.chat = chat_id, !.traced = TRUE,
                                          !.buffered = buffer /\ ~raises,
                                          !.email = EmailOf(user)]
    /\ UNCHANGED <<phase, langfuse, auth, valves, chat_traces, input_logged,
                   traces, spans>>

-----------------------------------------------------------------------------
(* outlet *)

\* the backend calls of one outlet, any of which may raise
BackendCalls ==
    {"trace.end", "start_span", "update_trace", "span.start_span", "span.end",
     "update_output", "start_generation", "gen.update", "gen.end"}

\* the outcomes of one try block: no call of it raises ("ok"), or the named
\* call is the first to raise; made: the block is run, calls: its calls,
\* failing: the calls the backend makes raise
Outcomes(made, calls, failing) ==
    {"ok"} \cup (IF made THEN calls \cap failing ELSE {})

\* a handle that exposes the user_id its trace was given
trace_user_id_stored(h) == traces[h].user_id

\* line 177: getattr(trace, "user_id", None); the handle start_span returns is
\* never given a user_id attribute, the user goes to the backend by update_trace
trace_user_id_attr(h) == None

\* line 178: the re-authentication test
ShouldDiscard(current_user_id, user_email) ==
    current_user_id = None /\ Truthy(user_email)

\* lines 180-183: trace.end(), its failure swallowed
EndTrace(ts, h, fails) ==
    IF fails THEN ts ELSE [ts EXCEPT ![h].ended = TRUE]

\* the trace input taken from the outlet body whatever was buffered
TraceInputFromBody(pending, body) == Get(body, "messages", <<>>)

\* line 189: pending.get("input") or body.get("messages", [])
TraceInput(pending, body) ==
    LET buffered == Get(pending, "input", <<>>)
    IN  IF buffered # <<>> THEN buffered ELSE Get(body, "messages", <<>>)

\* lines 190-191
PendingUserEmail(pending) ==
    IF "user" \in DOMAIN pending THEN EmailOf(pending["user"]) ELSE None

\* the attribution that looks at the current event only
FinalUserEmailOfEvent(user_email, pending_user_email) == PyOr(user_email, "anonymous")

\* line 194
FinalUserEmail(user_email, pending_user_email) ==
    PyOr(user_email, PyOr(pending_user_email, "anonymous"))

\* line 222: the finally clause of trace creation
PendingAfterCreate(chat_id) == Del(pending_chats, chat_id)

\* line 227
AlreadyLogged(chat_id) == chat_id \in input_logged

\* the span emitted without recording the chat id
LoggedNotRecorded(chat_id) == input_logged

\* lines 235-236
LoggedAfterSpan(chat_id) == input_logged \cup {chat_id}

\* line 255: user_id of complete_metadata
CompleteUserId(user_email) == PyOr(user_email, "anonymous")

\* lines 270-272
GenModelId(chat_id, body) ==
    Get(Get(model_names, chat_id, EmptyDict), "id", Get(body, "model", None))
GenModelName(chat_id) ==
    Get(Get(model_names, chat_id, EmptyDict), "name", "unknown")
GenModelValue(chat_id, body) ==
    IF valves.use_model_name THEN GenModelName(chat_id) ELSE GenModelId(chat_id, body)

\* lines 277-295: the generation record the backend holds after the try block
\* whose outcome is r
Generation(chat_id, body, usage, user_email, r) ==
    IF r = "start_generation" THEN NoGen
    ELSE [made |-> TRUE,
          model |-> GenModelValue(chat_id, body),
          usage |-> IF usage.present /\ r # "gen.update" THEN usage ELSE NoUsage,
          ended |-> r = "ok",
          user_id |-> CompleteUserId(user_email)]

\* spans[chat_id], zero when nothing was started
SpansOf(chat_id) == Get(spans, chat_id, [started |-> 0, ended |-> 0])

\* the handle created and not kept
StoreHandleForgotten(ct, chat_id, h) == ct

\* line 216: self.chat_traces[chat_id] = trace
StoreHandle(ct, chat_id, h) == Put(ct, chat_id, h)

\* the generation logged outside a try block
AbsorbedButGeneration(block) == block \in {"end_old", "create", "span", "update_out"}

\* lines 182, 218, 237, 266, 294: the except clause of each try block catches
\* whatever the backend call raises
Absorbed(block) == block \in {"end_old", "create", "span", "update_out", "gen"}

outlet(body, user, failing) ==
    /\ phase = "running"
    /\ LET metadata == Get(body, "metadata", EmptyDict)
           session_id == Get(metadata, "session_id", None)
           chat_id == NormalizeChatId(Get(metadata, "chat_id", None), session_id)
           user_email == EmailOf(user)
           base == [NoLast EXCEPT !.op = "outlet", !.body = body, !.ret = body,
                                  !.email = user_email]
       IN
       IF ~langfuse \/ ~Truthy(chat_id)
       THEN /\ last' = [base EXCEPT !.chat = IF langfuse THEN chat_id ELSE None]
            /\ UNCHANGED <<chat_traces, pending_chats, input_logged, traces, spans>>
       ELSE
       LET task_name == Get(metadata, "task", "llm_response")
           final_session_id == PyOr(session_id, chat_id)
           \* === recover from anonymous -> authenticated ===
           had == Get(chat_traces, chat_id, 0)
           discard == had # 0 /\ ShouldDiscard(trace_user_id_attr(had), user_email)
       IN
       \E r_end \in Outcomes(discard, {"trace.end"}, failing) :
       LET esc_old == r_end # "ok" /\ ~Absorbed("end_old")
           discarded == discard /\ ~esc_old
           traces1 == IF discard THEN EndTrace(traces, had, r_end # "ok") ELSE traces
           chat_traces1 == IF discarded THEN Del(chat_traces, chat_id) ELSE chat_traces
           \* === create trace only now ===
           creating == ~esc_old /\ chat_id \notin DOMAIN chat_traces1
           pending == Get(pending_chats, chat_id, EmptyDict)
           input_messages == TraceInput(pending, body)
           final_user_email == FinalUserEmail(user_email, PendingUserEmail(pending))
           new == Len(traces1) + 1
       IN
       \E r_create \in Outcomes(creating, {"start_span", "update_trace"}, failing) :
       LET opens == creating /\ r_create # "start_span"
           stores == creating /\ r_create = "ok"
           traces2 == IF opens
                      THEN Append(traces1,
                                  [chat |-> chat_id,
                                   user_id |-> IF stores THEN final_user_email ELSE None,
                                   ended |-> FALSE])
                      ELSE traces1
           chat_traces2 == IF stores THEN StoreHandle(chat_traces1, chat_id, new)
                           ELSE chat_traces1
           pending2 == IF creating THEN PendingAfterCreate(chat_id) ELSE pending_chats
           create_failed == creating /\ ~stores
           esc_create == create_failed /\ ~Absorbed("create")
           trace == IF creating THEN new ELSE Get(chat_traces1, chat_id, 0)
           \* === log user input event ===
           at_log == ~esc_old /\ ~create_failed
           logging == at_log /\ ~AlreadyLogged(chat_id)
           old_spans == SpansOf(chat_id)
       IN
       \E r_span \in Outcomes(logging, {"span.start_span", "span.end"}, failing) :
       LET span_started == logging /\ r_span # "span.start_span"
           span_ended == logging /\ r_span = "ok"
           esc_span == r_span # "ok" /\ ~Absorbed("span")
           spans2 == IF span_started
                     THEN Put(spans, chat_id,
                              [started |-> old_spans.started + 1,
                               ended |-> old_spans.ended + (IF span_ended THEN 1 ELSE 0)])
                     ELSE spans
           logged2 == IF span_ended THEN LoggedAfterSpan(chat_id) ELSE input_logged
           \* === extract usage: body["messages"] ===
           at_usage == at_log /\ ~esc_span
           key_error == at_usage /\ "messages" \notin DOMAIN body
           finishes == at_usage /\ ~key_error
           usage == IF finishes
                    THEN ExtractUsage(get_last_assistant_message_obj(body["messages"]))
                    ELSE NoUsage
       IN
       \* === update trace output ===
       \E r_out \in Outcomes(finishes, {"update_output"}, failing) :
       LET out_updated == finishes /\ r_out = "ok"
           esc_out == r_out # "ok" /\ ~Absorbed("update_out")
           \* === log llm generation ===
           at_gen == finishes /\ ~esc_out
           metadata3 == Put(Put(metadata, "model_id", GenModelId(chat_id, body)),
                            "model_name", GenModelName(chat_id))
           body3 == IF at_gen /\ "metadata" \in DOMAIN body
                    THEN Put(body, "metadata", metadata3)
                    ELSE body
           gen_calls == {"start_generation", "gen.end"}
                        \cup (IF usage.present THEN {"gen.update"} ELSE {})
       IN
       \E r_gen \in Outcomes(at_gen, gen_calls, failing) :
       LET gen == IF at_gen THEN Generation(chat_id, body, usage, user_email, r_gen)
                  ELSE NoGen
           esc_gen == r_gen # "ok" /\ ~Absorbed("gen")
           touched == (IF span_started THEN {trace} ELSE {})
                      \cup (IF out_updated THEN {trace} ELSE {})
                      \cup (IF gen.made THEN {trace} ELSE {})
       IN  /\ opens => Len(traces1) < MaxTraces
           /\ span_started => old_spans.started < MaxSpans
           /\ traces' = traces2
           /\ chat_traces' = chat_traces2
           /\ pending_chats' = pending2
           /\ spans' = spans2
           /\ input_logged' = logged2
           /\ last' = [base EXCEPT
                 !.chat = chat_id, !.traced = TRUE, !.ret = body3,
                 !.raised = esc_old \/ esc_create \/ esc_span \/ key_error
                            \/ esc_out \/ esc_gen,
                 !.had = had,
                 !.ended_old = IF discarded THEN had ELSE 0,
                 !.end_failed = r_end # "ok",
                 !.opened = IF opens THEN new ELSE 0,
                 !.created = IF stores THEN new ELSE 0,
                 !.create_failed = create_failed,
                 !.was_logged = AlreadyLogged(chat_id),
                 !.used = IF at_log THEN trace ELSE 0,
                 !.touched = touched,
                 !.trace_input = IF opens THEN input_messages ELSE <<>>,
                 !.trace_user = IF stores THEN final_user_email ELSE None,
                 !.tags = build_tags(task_name),
                 !.reached_log = at_log,
                 !.span_started = span_started,
                 !.span_ended = span_ended,
                 !.out_user = IF out_updated THEN CompleteUserId(user_email) ELSE None,
                 !.gen = gen]
    /\ UNCHANGED <<phase, langfuse, auth, valves, model_names, uuids>>

-----------------------------------------------------------------------------
(* Specifications *)

\* the steps of the host over the given inlet and outlet requests and users, with a backend
\* whose calls in failing may raise and whose auth check answers in auths
Step(inBodies, outBodies, users, failing, auths) ==
    \/ \E ok \in auths : on_startup(ok)
    \/ \E ok \in auths : on_valves_updated(valves, ok)
    \/ \E bad \in SUBSET DOMAIN chat_traces : on_shutdown(bad)
    \/ \E b \in inBodies, u \in users : inlet(b, u)
    \/ \E b \in outBodies, u \in users : outlet(b, u, failing)

\* a well-formed request of conversation c
Request(c) ==
    MkBody(MkMetadata(c, None, None, None), TRUE, "m1", TRUE,
           Turn("q1", "a1", EmptyDict))

Users == {NoUser, User("a@x")}

\* the calls that decide which traces exist: ending the old trace, creating
\* the new one
CoreCalls == {"trace.end", "start_span", "update_trace"}

\* Spec: two conversations, an anonymous and a signed-in user
ChatIds == {"c1", "c2"}
Bodies == {Request(c) : c \in ChatIds}
Next == Step(Bodies, Bodies, Users, CoreCalls, {TRUE})
Spec == Init /\ [][Next]_vars

\* the requests of one conversation
OneChat == {Request("c1")}

\* SpecAuth: one conversation, a backend whose auth check passes or fails
NextAuth == Step(OneChat, OneChat, Users, CoreCalls, BOOLEAN)
SpecAuth == Init /\ [][NextAuth]_vars

\* SpecFail: one conversation, every backend call may raise
NextFail == Step(OneChat, OneChat, Users, BackendCalls, {TRUE})
SpecFail == Init /\ [][NextFail]_vars

\* SpecFields: one conversation, requests with and without model and messages
FieldBodies ==
    {MkBody(MkMetadata("c1", None, None, None), hasModel, "m1", hasMessages,
            Turn("q1", "a1", EmptyDict)) : hasModel \in BOOLEAN, hasMessages \in BOOLEAN}
NextFields == Step(FieldBodies, FieldBodies, Users, CoreCalls, {TRUE})
SpecFields == Init /\ [][NextFields]_vars

\* SpecUsage: one conversation, replies with every combination of absent, zero
\* and positive token counts
UsageKeys == {"prompt_eval_count", "prompt_tokens", "eval_count", "completion_tokens"}
UsageDicts == UNION {[keys -> {0, 7}] : keys \in SUBSET UsageKeys}
UsageBodies ==
    {MkBody(MkMetadata("c1", None, None, None), TRUE, "m1", TRUE,
            Turn("q1", "a1", info)) : info \in UsageDicts}
GenCalls == {"start_generation", "gen.update"}
NextUsage == Step(OneChat, UsageBodies, {NoUser}, GenCalls, {TRUE})
SpecUsage == Init /\ [][NextUsage]_vars

\* SpecSession: two temporary sessions of the sentinel chat id "local"; the
\* outlet request carries the sentinel or the identifier inlet wrote back
SessionIds == {"s1", "s2"}
LocalRequest(chat_id, s) ==
    MkBody(MkMetadata(chat_id, s, None, None), TRUE, "m1", TRUE,
           Turn("q1", "a1", EmptyDict))
LocalBodies == {LocalRequest("local", s) : s \in SessionIds}
NormalizedBodies == {LocalRequest("temporary-session-" \o s, s) : s \in SessionIds}
NextSession == Step(LocalBodies, LocalBodies \cup NormalizedBodies, Users, {}, {TRUE})
SpecSession == Init /\ [][NextSession]_vars

\* SpecFresh: requests that come without a chat id (with empty metadata, with
\* no metadata at all, with other metadata fields and no model) next to
\* requests of a known conversation and of a temporary session; outlet gets
\* the body the inlet of the turn returned
FreshBodies ==
    {MkBody(EmptyDict, TRUE, "m1", TRUE, Turn("q1", "a1", EmptyDict)),
     Del(MkBody(EmptyDict, TRUE, "m1", TRUE, Turn("q1", "a1", EmptyDict)), "metadata"),
     MkBody(MkMetadata(None, None, "title_generation", "GPT"), FALSE, "m1", TRUE,
            Turn("q1", "a1", EmptyDict))}
KnownBodies ==
    {Request("c1"),
     MkBody(MkMetadata("local", "s1", "title_generation", "GPT"), TRUE, "m1", TRUE,
            Turn("q1", "a1", EmptyDict))}
ReturnedBodies == IF last.op = "inlet" /\ ~last.raised THEN {last.ret} ELSE {}
NextFresh ==
    Step(FreshBodies \cup KnownBodies, ReturnedBodies, {NoUser}, {"start_span"}, {TRUE})
SpecFresh == Init /\ [][NextFresh]_vars

\* SpecInput: one conversation whose requests carry no message, the first
\* turn or the second turn
MessageLists == {<<>>, Turn("q1", "a1", EmptyDict), Turn("q2", "a2", EmptyDict)}
InputBodies ==
    {MkBody(MkMetadata("c1", None, None, None), TRUE, "m1", TRUE, msgs) :
        msgs \in MessageLists}
NextInput == Step(InputBodies, InputBodies, Users, {"start_span"}, {TRUE})
SpecInput == Init /\ [][NextInput]_vars

\* SpecTags: one conversation whose requests name no task, a default task or
\* another task, under every setting of the valves
Tasks == {None, "user_response", "llm_response", "title_generation"}
TagBodies ==
    {MkBody(MkMetadata("c1", None, task, None), TRUE, "m1", TRUE,
            Turn("q1", "a1", EmptyDict)) : task \in Tasks}
ValveChoices == [insert_tags : BOOLEAN, use_model_name : BOOLEAN]
NextTags ==
    \/ Step(TagBodies, TagBodies, {NoUser}, {}, {TRUE})
    \/ \E v \in ValveChoices : on_valves_updated(v, TRUE)
SpecTags == Init /\ [][NextTags]_vars

-----------------------------------------------------------------------------
(* Claims *)

\* the handle chat_traces holds for a chat id, 0 when none
HandleOf(c) == Get(chat_traces, c, 0)

\* an outlet that went past its guards has just returned
OutletReturned == last.op = "outlet" /\ last.traced /\ ~last.raised

OpenTraces(c) == {i \in DOMAIN traces : traces[i].chat = c /\ ~traces[i].ended}

\* the chat ids the backend has seen
TracedChats == {traces[i].chat : i \in DOMAIN traces}

\* C2: in every reachable state each conversation identifier has at most one
\* trace opened at the backend and not yet ended.
C2_AtMostOneOpenTrace == \A c \in TracedChats : Cardinality(OpenTraces(c)) <= 1

\* the case of C3: the conversation's trace was created with no known user and
\* this outlet carries a user email
C3_Case ==
    /\ last.op = "outlet"
    /\ last.traced
    /\ last.had # 0
    /\ traces[last.had].user_id = "anonymous"
    /\ Truthy(last.email)

\* C3: an outlet that carries a user email for a conversation whose trace was
\* created anonymously ends that trace (it is ended unless end() raised),
\* removes it from chat_traces and sends it no update, and creates a distinct
\* trace attributed to the email (unless start_span or update_trace raised),
\* which is the only trace the call writes to.
C3_AnonymousThenAuthenticatedSplits ==
    C3_Case =>
        /\ last.ended_old = last.had
        /\ ~last.end_failed => traces[last.had].ended
        /\ HandleOf(last.chat) # last.had
        /\ last.had \notin last.touched
        /\ ~last.create_failed =>
              /\ last.created # 0
              /\ last.created # last.had
              /\ HandleOf(last.chat) = last.created
              /\ traces[last.created].user_id = last.email
              /\ traces[last.created].chat = last.chat
              /\ last.used = last.created
        /\ last.touched \subseteq {last.created}

\* C3 witness: the anonymous trace is ended and a second trace, attributed to
\* the email, is in its place
C3_Witness ==
    /\ C3_Case
    /\ traces[last.had].ended
    /\ last.created # 0
    /\ traces[last.created].user_id = "a@x"
    /\ ~traces[last.created].ended

\* C4: after any outlet call completes, no conversation identifier is in both
\* pending_chats and chat_traces.
C4_NeverPendingAndTrace ==
    (last.op = "outlet" /\ ~last.raised) =>
        DOMAIN pending_chats \cap DOMAIN chat_traces = {}

Kept == <<pending_chats, chat_traces, model_names, input_logged, traces, spans>>

\* C6: while the latest auth check has failed (at startup or at a
\* reconfiguration) the client is None, every inlet and outlet returns its
\* body unchanged and changes nothing tracing keeps, and only a
\* reconfiguration whose auth check succeeds enables tracing again.
C6_AuthFailureDisablesTracing ==
    /\ [](auth = "failed" => ~langfuse)
    /\ [][(auth = "failed" /\ last'.op \in {"inlet", "outlet"}) =>
             /\ last'.ret = last'.body
             /\ ~last'.raised
             /\ ~last'.traced
             /\ Kept' = Kept]_vars
    /\ [][(auth = "failed" /\ langfuse') =>
             (last'.op = "on_valves_updated" /\ auth' = "ok")]_vars

\* C6 witness: a reconfiguration failed while a trace was open and a turn was
\* buffered, and an outlet was then called
C6_Witness ==
    /\ auth = "failed"
    /\ last.op = "outlet"
    /\ DOMAIN chat_traces # {}
    /\ DOMAIN pending_chats # {}

\* C7: whatever backend calls raise during an outlet on a conversation body,
\* outlet raises nothing and returns the body with its messages unchanged.
C7_OutletAbsorbsFailures ==
    (last.op = "outlet" /\ "messages" \in DOMAIN last.body) =>
        /\ ~last.raised
        /\ "messages" \in DOMAIN last.ret
        /\ last.ret["messages"] = last.body["messages"]
        /\ DOMAIN last.ret = DOMAIN last.body

\* C7 witness: ending the old trace, ending the span, updating the output and
\* ending the generation all raised in one outlet
C7_Witness ==
    /\ last.op = "outlet"
    /\ last.end_failed
    /\ last.span_started /\ ~last.span_ended
    /\ last.used # 0 /\ last.out_user = None
    /\ last.gen.made /\ ~last.gen.ended

\* C8: an inlet or outlet whose body lacks model or messages returns the body
\* unchanged without raising and without tracing: nothing is buffered, no
\* trace, span or generation is created.
C8_MissingFieldsPassThrough ==
    (last.op \in {"inlet", "outlet"}
     /\ ~({"model", "messages"} \subseteq DOMAIN last.body)) =>
        /\ ~last.raised
        /\ last.ret = last.body
        /\ ~last.buffered
        /\ last.opened = 0
        /\ ~last.span_started
        /\ ~last.gen.made

\* a token count is resolvable when one of its two keys is present
Resolvable(info, key, fallback) == key \in DOMAIN info \/ fallback \in DOMAIN info

\* the usage dict of the last assistant message of a body
UsageInfo(body) ==
    Get(get_last_assistant_message_obj(body["messages"]), "usage", EmptyDict)

\* C9: the generation record carries a UsageRecord iff an input-token count
\* and an output-token count are both resolvable from the last assistant
\* message, for present, absent and zero-valued counts.
C9_UsageIffResolvable ==
    (last.op = "outlet" /\ last.gen.made /\ last.gen.ended) =>
        (last.gen.usage.present <=>
            /\ Resolvable(UsageInfo(last.body), "prompt_eval_count", "prompt_tokens")
            /\ Resolvable(UsageInfo(last.body), "eval_count", "completion_tokens"))

\* C10: the identifiers in model_names are a superset of those in chat_traces.
C10_ModelNamesSuperset == DOMAIN chat_traces \subseteq DOMAIN model_names

\* the metadata of a request body and its session id
MetadataOf(body) == Get(body, "metadata", EmptyDict)
SessionOf(body) == Get(MetadataOf(body), "session_id", None)

\* metadata.chat_id of a body, None when it has none
ChatIdIn(body) == Get(MetadataOf(body), "chat_id", None)

\* the request is one of a temporary session: chat id "local" and a session id
IsLocal(body) == ChatIdIn(body) = "local" /\ Truthy(SessionOf(body))

\* what the program keeps under conversation identifier c
EntriesOf(c) ==
    <<Get(pending_chats, c, EmptyDict), Get(chat_traces, c, 0),
      Get(model_names, c, EmptyDict), c \in input_logged>>

\* the identifiers the program keeps anything under
KnownIds == DOMAIN pending_chats \cup DOMAIN chat_traces \cup DOMAIN model_names

\* inlet and outlet resolve "local" with session id s to temporary-session-s
C11_SameIdentifier ==
    (last.op \in {"inlet", "outlet"} /\ last.traced /\ IsLocal(last.body)) =>
        last.chat = "temporary-session-" \o SessionOf(last.body)

\* a call for one session leaves what is kept for every other identifier
C11_SessionsApart ==
    [][(last'.op \in {"inlet", "outlet"} /\ last'.traced) =>
          \A c \in KnownIds \ {last'.chat} : EntriesOf(c)' = EntriesOf(c)]_vars

\* the outlet that follows the inlet of its turn takes the PendingTurn that
\* inlet buffered: it is gone from pending_chats afterwards
C11_TurnConsumed ==
    [][(/\ last.op = "inlet" /\ last.buffered /\ IsLocal(last.body)
        /\ last'.op = "outlet" /\ IsLocal(last'.body)
        /\ SessionOf(last'.body) = SessionOf(last.body)) =>
          /\ last'.chat = last.chat
          /\ last.chat \notin DOMAIN pending_chats']_vars

\* C11: for chat_id "local" with a session id, inlet and outlet resolve the
\* same identifier temporary-session-{session_id}, the PendingTurn buffered by
\* inlet is consumed by the outlet of the same turn, and two sessions with
\* different session ids share no PendingTurn and no TraceHandle.
C11_LocalSessionsConsistent ==
    /\ []C11_SameIdentifier
    /\ C11_SessionsApart
    /\ C11_TurnConsumed

\* the request names no conversation: neither chat_id nor session_id
IsFresh(body) == DOMAIN MetadataOf(body) \cap {"chat_id", "session_id"} = {}

\* every identifier the program or the backend holds anything under
IdsInUse == KnownIds \cup input_logged \cup TracedChats

\* C12: an inlet whose body has neither metadata.chat_id nor
\* metadata.session_id generates an identifier no identifier in use equals,
\* buffers the turn under it and writes it to metadata.chat_id of the body it
\* returns; the outlet called with that body resolves the same identifier and
\* consumes the PendingTurn: the trace it opens gets the buffered input and
\* the turn is gone from pending_chats.
C12_FreshIdReused ==
    /\ [][(last'.op = "inlet" /\ last'.traced /\ IsFresh(last'.body)) =>
             /\ last'.chat \notin IdsInUse
             /\ Truthy(last'.chat)
             /\ last'.buffered
             /\ last'.chat \in DOMAIN pending_chats'
             /\ ChatIdIn(last'.ret) = last'.chat]_vars
    /\ [][(/\ last.op = "inlet" /\ last.traced /\ IsFresh(last.body)
           /\ last'.op = "outlet" /\ last'.body = last.ret) =>
             /\ last'.traced
             /\ last'.chat = last.chat
             /\ last'.opened # 0 =>
                   last'.trace_input = pending_chats[last.chat].input
             /\ last.chat \notin DOMAIN pending_chats']_vars

\* C12 witness: the second generated identifier went from inlet to the outlet
\* of the turn, which created the trace and took the buffered turn
C12_Witness ==
    /\ last.op = "outlet"
    /\ uuids = 2
    /\ last.chat = Uuid(2)
    /\ ChatIdIn(last.body) = Uuid(2)
    /\ last.created # 0
    /\ traces[last.created].chat = Uuid(2)
    /\ Uuid(2) \notin DOMAIN pending_chats
    /\ Uuid(1) \in IdsInUse

\* C14: with tracing enabled, the body inlet returns is its input body but
\* for metadata.chat_id, which holds the resolved identifier: every other key
\* of the body and of its metadata is there with the value it had, and none
\* is added.
C14_InletReturnsBodyWithChatId ==
    (last.op = "inlet" /\ last.traced /\ ~last.raised) =>
        LET m == MetadataOf(last.body)
            rm == last.ret["metadata"]
        IN  /\ DOMAIN last.ret = DOMAIN last.body \cup {"metadata"}
            /\ \A k \in DOMAIN last.body \ {"metadata"} : last.ret[k] = last.body[k]
            /\ DOMAIN rm = DOMAIN m \cup {"chat_id"}
            /\ \A k \in DOMAIN m \ {"chat_id"} : rm[k] = m[k]
            /\ rm["chat_id"] = last.chat
            /\ IF IsLocal(last.body)
               THEN last.chat = "temporary-session-" \o SessionOf(last.body)
               ELSE "chat_id" \in DOMAIN m => last.chat = m["chat_id"]

\* C14 witness: inlet normalized the chat id of a temporary-session request
\* that carries a task and a model name
C14_Witness ==
    /\ last.op = "inlet"
    /\ last.traced
    /\ IsLocal(last.body)
    /\ last.ret["metadata"]["chat_id"] = "temporary-session-s1"
    /\ last.ret["metadata"]["task"] = "title_generation"
    /\ last.ret # last.body

\* C13 as stated: the trace an outlet opens gets as input the input messages of the
\* PendingTurn buffered for the conversation if there is one, and the outlet
\* body's own messages otherwise; an outlet for an identifier with no handle
\* and no buffered turn creates a trace (unless a backend call raises).
C13_TraceInputFromPendingTurn ==
    [][(last'.op = "outlet" /\ last'.traced) =>
          /\ last'.opened # 0 =>
                last'.trace_input =
                    IF last'.chat \in DOMAIN pending_chats
                    THEN pending_chats[last'.chat].input
                    ELSE Get(last'.body, "messages", <<>>)
          /\ (/\ last'.chat \notin DOMAIN pending_chats
              /\ last'.chat \notin DOMAIN chat_traces
              /\ ~last'.create_failed) => last'.created # 0]_vars

\* C13 amended: the trace an outlet opens gets as input the input messages of
\* the PendingTurn buffered for the conversation if there is one and its
\* message list is not empty, and the outlet body's own messages otherwise
\* (no buffered turn, or one buffered with an empty message list); an outlet
\* for an identifier with no handle and no buffered turn creates a trace
\* (unless a backend call raises).
C13_TraceInputFromNonEmptyPendingTurn ==
    [][(last'.op = "outlet" /\ last'.traced) =>
          /\ last'.opened # 0 =>
                last'.trace_input =
                    IF /\ last'.chat \in DOMAIN pending_chats
                       /\ pending_chats[last'.chat].input # <<>>
                    THEN pending_chats[last'.chat].input
                    ELSE Get(last'.body, "messages", <<>>)
          /\ (/\ last'.chat \notin DOMAIN pending_chats
              /\ last'.chat \notin DOMAIN chat_traces
              /\ ~last'.create_failed) => last'.created # 0]_vars

\* C13 witness: the trace was created with the buffered first turn as input
\* by an outlet whose own messages are the second turn
C13_Witness ==
    /\ last.op = "outlet"
    /\ last.created # 0
    /\ last.trace_input = Turn("q1", "a1", EmptyDict)
    /\ last.body["messages"] = Turn("q2", "a2", EmptyDict)
    /\ "c1" \notin DOMAIN pending_chats

\* C15: an inlet call (with tracing enabled) creates a PendingTurn for its
\* conversation exactly when neither a PendingTurn nor a TraceHandle exists
\* for it, and in every other case leaves pending_chats unchanged.
C15_BufferOnlyWithoutTurnAndHandle ==
    [][(last'.op = "inlet" /\ last'.traced /\ ~last'.raised) =>
          /\ last'.buffered <=>
                /\ last'.chat \notin DOMAIN pending_chats
                /\ last'.chat \notin DOMAIN chat_traces
          /\ ~last'.buffered => pending_chats' = pending_chats
          /\ last'.buffered =>
                pending_chats' = Put(pending_chats, last'.chat,
                                     pending_chats'[last'.chat])]_vars

\* the handle the outlet found was opened for a known user
OpenedForKnownUser(h) == traces[h].user_id # "anonymous"

\* C16: the re-authentication step of outlet discards the handle it finds
\* only if the handle was opened with no known user and the event carries a
\* user email; a handle opened for a known user is kept in chat_traces and is
\* the one the outlet writes to, whoever the current user is.
C16_KnownUserHandleKept ==
    (last.op = "outlet" /\ last.traced /\ last.had # 0) =>
        /\ last.ended_old # 0 =>
              (~OpenedForKnownUser(last.had) /\ Truthy(last.email))
        /\ OpenedForKnownUser(last.had) =>
              /\ last.ended_old = 0
              /\ last.opened = 0
              /\ last.used = last.had
              /\ HandleOf(last.chat) = last.had

\* the email of the user a PendingTurn holds, None when it holds none
BufferedEmail(c) ==
    IF c \in DOMAIN pending_chats THEN EmailOf(pending_chats[c].user) ELSE None

\* C17: the trace an outlet creates is attributed to the event's user email if
\* there is one, else to the email of the user in the PendingTurn if there is
\* one, else to "anonymous".
C17_TraceUserPrecedence ==
    [][(last'.op = "outlet" /\ last'.created # 0) =>
          /\ last'.trace_user =
                IF Truthy(last'.email) THEN last'.email
                ELSE IF Truthy(BufferedEmail(last'.chat))
                     THEN BufferedEmail(last'.chat)
                     ELSE "anonymous"
          /\ traces'[last'.created].user_id = last'.trace_user]_vars

\* C17 witness: an outlet without a user created the trace for the user of
\* the buffered turn
C17_Witness ==
    /\ last.op = "outlet"
    /\ last.email = None
    /\ last.created # 0
    /\ traces[last.created].user_id = "a@x"

\* C20: in an outlet that creates the trace, the user_id in the metadata of
\* the output update and of the generation record is the user_id the trace
\* was created with.
C20_OneUserIdPerOutlet ==
    (last.op = "outlet" /\ last.created # 0) =>
        /\ last.out_user # None => last.out_user = last.trace_user
        /\ last.gen.made => last.gen.user_id = last.trace_user

\* the task name of a request and the tags of the list built for the call
TaskOf(body) == Get(MetadataOf(body), "task", "llm_response")
TagsBuilt == {last.tags[i] : i \in DOMAIN last.tags}
DefaultTasks == {"user_response", "llm_response"}

\* C18 as stated: the tag list built for a task name contains "open-webui",
\* and contains the task name unless the task is "user_response" or
\* "llm_response", whatever valves.insert_tags is.
C18_TaskTagWhateverValve ==
    (last.op = "outlet" /\ last.traced) =>
        /\ "open-webui" \in TagsBuilt
        /\ TaskOf(last.body) \notin DefaultTasks => TaskOf(last.body) \in TagsBuilt

\* C18 amended: the tag list built for a task name starts with "open-webui" and
\* holds the task name as well exactly when valves.insert_tags is true and the
\* task is neither "user_response" nor "llm_response"; it holds nothing else.
C18_TaskTagWhenValveSet ==
    (last.op = "outlet" /\ last.traced) =>
        /\ Len(last.tags) >= 1
        /\ last.tags[1] = "open-webui"
        /\ TagsBuilt \subseteq {"open-webui", TaskOf(last.body)}
        /\ TaskOf(last.body) \in TagsBuilt <=>
              (valves.insert_tags /\ TaskOf(last.body) \notin DefaultTasks)

\* C18 witness: with insert_tags off the list built for another task holds
\* the marker only
C18_Witness ==
    /\ last.op = "outlet"
    /\ last.traced
    /\ ~valves.insert_tags
    /\ TaskOf(last.body) = "title_generation"
    /\ last.tags = <<"open-webui">>

\* C19: when on_shutdown returns (no trace.end() having raised), every trace
\* chat_traces held has been ended and chat_traces is empty, from every state
\* shutdown can be called in.
C19_ShutdownEndsEveryTrace ==
    [][(last'.op = "on_shutdown" /\ ~last'.end_failed) =>
          /\ chat_traces' = EmptyDict
          /\ \A c \in DOMAIN chat_traces : traces'[chat_traces[c]].ended]_vars

====
